---- MODULE Spec2Model ----
(***************************************************************************)
(* A model of the caching and expansion core of the HiRez API wrapper:     *)
(*   src/hirezapi/api.py    PaladinsAPI.get_server_status,                 *)
(*                          PaladinsAPI.get_champion_info, get_match       *)
(*   src/arez/player.py     PartialPlayer._expand, __eq__, private,        *)
(*                          get_status, get_friends, get_loadouts,         *)
(*                          get_champion_stats, get_match_history          *)
(*   src/hirezapi/utils.py  get, get_name_or_id                            *)
(*                                                                         *)
(* The coroutines run on one cooperative event loop: the code between two  *)
(* awaits is one atomic step, and every `await self.request(...)` is a     *)
(* suspension point at which other tasks run and the clock may advance.    *)
(* Time is counted in units of 30 seconds.                                 *)
(***************************************************************************)
EXTENDS Integers, Sequences, FiniteSets, TLC

VARIABLES
    now,            \* the clock, datetime.utcnow(), in units of 30 seconds
    advances,       \* how many times the clock has been advanced
    fetchSeq,       \* how many refreshes / expansions have been started
    server_status,  \* PaladinsAPI.server_status: None or (ServerStatus, expires)
    cache,          \* PaladinsAPI.cache: the DataCache, one entry per language
    pc,             \* per task: where its coroutine is suspended
    frame,          \* per task: the arguments and locals of its suspended coroutine
    last,           \* the call that returned in the latest step (NoCall if none did)
    expanded,       \* the player ids for which an expansion has returned a Player
    a, b, debug, eqpc, eqab, eqba,     \* the equality harness
    iterable, attrs, name_or_id, getpc, getres,    \* the lookup harness
    history         \* get_match_history as its request returns: self.id, language, response

cacheVars == <<now, advances, fetchSeq, server_status, cache, pc, frame, last, expanded>>
eqVars    == <<a, b, debug, eqpc, eqab, eqba>>
getVars   == <<iterable, attrs, name_or_id, getpc, getres, history>>
vars      == <<cacheVars, eqVars, getVars>>

----------------------------------------------------------------------------
(* Bounds of the model *)

NumTasks    == 2    \* concurrently scheduled coroutines
MaxAdvances == 2    \* clock advances in one behaviour
MaxFetches  == 2    \* refreshes and expansions started in one behaviour
MaxPlayerId == 2    \* player ids are 0..MaxPlayerId
MaxLen      == 2    \* longest iterable handed to get
MaxRecords  == 1    \* most records in a response, where derived operations interleave

(* Program constants, in units of 30 seconds *)

StatusTTL    == 2       \* timedelta(minutes=1)
RefreshEvery == 1440    \* "cached once every 12 hours"

Tasks     == 1..NumTasks
Languages == {"english", "polish"}
PlayerIds == 0..MaxPlayerId
Steps     == {1, RefreshEvery - 1}

----------------------------------------------------------------------------
(* Values *)

None       == [kind |-> "None"]
Empty      == [kind |-> "empty"]
NoFrame    == [op |-> "none"]
NoResult   == [kind |-> "none"]
NoCall     == [op |-> "none"]
Return(v)  == [kind |-> "return", value |-> v]
Raise(e)   == [kind |-> "raise", exc |-> e]

\* What one request to the endpoint can end in: a non-empty list of records,
\* an empty response, or a transport-level failure raised out of the await.
Outcomes == {"data", "empty", "error"}

\* The response to request `req` with argument `arg`, made by refresh `rid`.
Response(outcome, req, arg, rid) ==
    IF outcome = "data"
    THEN [kind |-> "data", req |-> req, arg |-> arg, rid |-> rid]
    ELSE Empty

\* Python truthiness of a response: `if response:`
Truthy(response) == response.kind = "data"

----------------------------------------------------------------------------
(* The clock and the event loop *)

\* Time passes between any two steps of the event loop.
Advance(d) ==
    /\ advances < MaxAdvances
    /\ now' = now + d
    /\ advances' = advances + 1
    /\ last' = NoCall
    /\ UNCHANGED <<fetchSeq, server_status, cache, pc, frame, expanded>>

\* A task can begin a new call when it is not suspended inside one. Idle tasks
\* are interchangeable: the call goes to the one with the lowest number.
Ready(t) == pc[t] = "idle" /\ \A u \in 1..(t - 1) : pc[u] # "idle"

\* The coroutine called by task t suspends at an await with locals f.
Suspend(t, at, f) ==
    /\ pc' = [pc EXCEPT ![t] = at]
    /\ frame' = [frame EXCEPT ![t] = f]
    /\ last' = NoCall

\* The coroutine called by task t ends: `call` records what its caller saw.
Finish(t, call) ==
    /\ pc' = [pc EXCEPT ![t] = "idle"]
    /\ frame' = [frame EXCEPT ![t] = NoFrame]
    /\ last' = call

----------------------------------------------------------------------------
(* PaladinsAPI.get_server_status *)

\* ServerStatus(response)
ServerStatus(response) == [kind |-> "ServerStatus", data |-> response]

\* Mutant of StatusExpiry: the expiry is counted from the time the response
\* arrived, not from the time read at the start of the call.
StatusExpiry_FromArrival(t0) == now + StatusTTL

\* now + timedelta(minutes=1)
StatusExpiry(t0) == t0 + StatusTTL

\* Mutant of StatusNeedsRefresh: `now > expires` in place of `now >= expires`.
StatusNeedsRefresh_Late(t0, force_refresh) ==
    \/ server_status = None
    \/ t0 > server_status.expires
    \/ force_refresh

\* self.server_status is None or now >= self.server_status[1] or force_refresh
StatusNeedsRefresh(t0, force_refresh) ==
    \/ server_status = None
    \/ t0 >= server_status.expires
    \/ force_refresh

\* if self.server_status: return self.server_status[0]     (else None)
StatusValue(entry) == IF entry = None THEN None ELSE entry.status

\* What the caller of get_server_status saw, with the requests the call made
\* and how each of them ended.
StatusCall(force_refresh, requests, responses, outcome) ==
    [op |-> "get_server_status", force_refresh |-> force_refresh,
     requests |-> requests, responses |-> responses, outcome |-> outcome]

\* From the call to the first await, or to the return when nothing is fetched.
get_server_status(t, force_refresh) ==
    /\ Ready(t)
    /\ IF StatusNeedsRefresh(now, force_refresh)
       THEN /\ fetchSeq < MaxFetches
            /\ fetchSeq' = fetchSeq + 1
            /\ Suspend(t, "gethirezserverstatus",
                   [op |-> "get_server_status", force_refresh |-> force_refresh,
                    now |-> now, rid |-> fetchSeq + 1,
                    requests |-> <<"gethirezserverstatus">>])
       ELSE /\ Finish(t, StatusCall(force_refresh, <<>>, <<>>,
                                    Return(StatusValue(server_status))))
            /\ UNCHANGED fetchSeq
    /\ UNCHANGED <<now, advances, server_status, cache, expanded>>

\* Mutant of get_server_status_resume: a response with data replaces the stored
\* status only when its expiry is not earlier than the stored one.
get_server_status_resume_KeepLatest(t, outcome) ==
    /\ pc[t] = "gethirezserverstatus"
    /\ IF outcome = "error"
       THEN /\ Finish(t, StatusCall(frame[t].force_refresh, frame[t].requests,
                                    <<outcome>>, Raise("TransportError")))
            /\ UNCHANGED server_status
       ELSE LET response == Response(outcome, "gethirezserverstatus", "", frame[t].rid)
                later    == \/ server_status = None
                            \/ StatusExpiry(frame[t].now) >= server_status.expires
                stored   == IF Truthy(response) /\ later
                            THEN [status  |-> ServerStatus(response),
                                  expires |-> StatusExpiry(frame[t].now)]
                            ELSE server_status
            IN  /\ server_status' = stored
                /\ Finish(t, StatusCall(frame[t].force_refresh, frame[t].requests,
                                        <<outcome>>, Return(StatusValue(stored))))
    /\ UNCHANGED <<now, advances, fetchSeq, cache, expanded>>

\* The await of "gethirezserverstatus" ends, then the rest of the coroutine.
get_server_status_resume(t, outcome) ==
    /\ pc[t] = "gethirezserverstatus"
    /\ IF outcome = "error"
       THEN /\ Finish(t, StatusCall(frame[t].force_refresh, frame[t].requests,
                                    <<outcome>>, Raise("TransportError")))
            /\ UNCHANGED server_status
       ELSE LET response == Response(outcome, "gethirezserverstatus", "", frame[t].rid)
                stored   == IF Truthy(response)
                            THEN [status  |-> ServerStatus(response),
                                  expires |-> StatusExpiry(frame[t].now)]
                            ELSE server_status
            IN  /\ server_status' = stored
                /\ Finish(t, StatusCall(frame[t].force_refresh, frame[t].requests,
                                        <<outcome>>, Return(StatusValue(stored))))
    /\ UNCHANGED <<now, advances, fetchSeq, cache, expanded>>

----------------------------------------------------------------------------
(* DataCache: the reference-data cache behind PaladinsAPI.cache *)

\* ChampionInfo(cache, language, champions_data, items_data): one bundle.
ChampionInfo(language, champions_data, items_data) ==
    [kind |-> "ChampionInfo", language |-> language,
     champions |-> champions_data, items |-> items_data]

\* DataCache._needs_refreshing(language): no entry, or the entry is 12 hours old.
_needs_refreshing(language) ==
    \/ cache[language] = None
    \/ now - cache[language].populated_at >= RefreshEvery

\* DataCache.__setitem__(language, (champions_response, items_response))
__setitem__(language, champions_response, items_response) ==
    [cache EXCEPT ![language] =
        [value |-> ChampionInfo(language, champions_response, items_response),
         populated_at |-> now]]

\* DataCache.__getitem__(language): `.get()` on the internal dict
__getitem__(c, language) == IF c[language] = None THEN None ELSE c[language].value

----------------------------------------------------------------------------
(* PaladinsAPI.get_champion_info *)

\* Mutant of InfoNeedsRefresh: the staleness check is dropped, every call
\* refreshes.
InfoNeedsRefresh_Always(language, force_refresh) == TRUE

\* self.cache._needs_refreshing(language) or force_refresh
InfoNeedsRefresh(language, force_refresh) ==
    _needs_refreshing(language) \/ force_refresh

\* Mutant of BothSucceeded: `or` in place of `and`.
BothSucceeded_Either(champions_response, items_response) ==
    Truthy(champions_response) \/ Truthy(items_response)

\* if champions_response and items_response:
BothSucceeded(champions_response, items_response) ==
    Truthy(champions_response) /\ Truthy(items_response)

\* What the caller of get_champion_info saw, with the requests the call made
\* and how each of them ended.
InfoCall(language, force_refresh, requests, responses, outcome) ==
    [op |-> "get_champion_info", language |-> language,
     force_refresh |-> force_refresh, requests |-> requests,
     responses |-> responses, outcome |-> outcome]

\* Mutant of get_champion_info: single-flight. A call that finds another task
\* already refreshing its language makes no request of its own and returns
\* what is stored.
get_champion_info_SingleFlight(t, language, force_refresh) ==
    /\ Ready(t)
    /\ IF /\ InfoNeedsRefresh(language, force_refresh)
          /\ \A u \in Tasks : pc[u] \in {"getgods", "getitems"}
                                  => frame[u].language # language
       THEN /\ fetchSeq < MaxFetches
            /\ fetchSeq' = fetchSeq + 1
            /\ Suspend(t, "getgods",
                   [op |-> "get_champion_info", language |-> language,
                    force_refresh |-> force_refresh, rid |-> fetchSeq + 1,
                    requests |-> <<"getgods">>, responses |-> <<>>,
                    champions_response |-> Empty])
       ELSE /\ Finish(t, InfoCall(language, force_refresh, <<>>, <<>>,
                                  Return(__getitem__(cache, language))))
            /\ UNCHANGED fetchSeq
    /\ UNCHANGED <<now, advances, server_status, cache, expanded>>

\* From the call to the await of "getgods", or to the return when the entry
\* is fresh.
get_champion_info(t, language, force_refresh) ==
    /\ Ready(t)
    /\ IF InfoNeedsRefresh(language, force_refresh)
       THEN /\ fetchSeq < MaxFetches
            /\ fetchSeq' = fetchSeq + 1
            /\ Suspend(t, "getgods",
                   [op |-> "get_champion_info", language |-> language,
                    force_refresh |-> force_refresh, rid |-> fetchSeq + 1,
                    requests |-> <<"getgods">>, responses |-> <<>>,
                    champions_response |-> Empty])
       ELSE /\ Finish(t, InfoCall(language, force_refresh, <<>>, <<>>,
                                  Return(__getitem__(cache, language))))
            /\ UNCHANGED fetchSeq
    /\ UNCHANGED <<now, advances, server_status, cache, expanded>>

\* The await of "getgods" ends and "getitems" is requested.
get_champion_info_getgods(t, outcome) ==
    /\ pc[t] = "getgods"
    /\ IF outcome = "error"
       THEN Finish(t, InfoCall(frame[t].language, frame[t].force_refresh,
                               frame[t].requests, <<outcome>>,
                               Raise("TransportError")))
       ELSE /\ Suspend(t, "getitems",
                   [frame[t] EXCEPT
                        !.champions_response =
                            Response(outcome, "getgods", frame[t].language, frame[t].rid),
                        !.requests = Append(@, "getitems"),
                        !.responses = Append(@, outcome)])
    /\ UNCHANGED <<now, advances, fetchSeq, server_status, cache, expanded>>

\* Mutant of get_champion_info_getitems: a refresh that brought no bundle
\* still stamps the stored entry with the current time.
get_champion_info_getitems_Touch(t, outcome) ==
    /\ pc[t] = "getitems"
    /\ IF outcome = "error"
       THEN /\ Finish(t, InfoCall(frame[t].language, frame[t].force_refresh,
                                  frame[t].requests,
                                  Append(frame[t].responses, outcome),
                                  Raise("TransportError")))
            /\ UNCHANGED cache
       ELSE LET language       == frame[t].language
                items_response == Response(outcome, "getitems", language, frame[t].rid)
                stored == IF BothSucceeded(frame[t].champions_response, items_response)
                          THEN __setitem__(language, frame[t].champions_response,
                                       items_response)
                          ELSE IF cache[language] = None
                               THEN cache
                               ELSE [cache EXCEPT ![language].populated_at = now]
            IN  /\ cache' = stored
                /\ Finish(t, InfoCall(language, frame[t].force_refresh,
                                      frame[t].requests,
                                      Append(frame[t].responses, outcome),
                                      Return(__getitem__(stored, language))))
    /\ UNCHANGED <<now, advances, fetchSeq, server_status, expanded>>

\* Mutant of get_champion_info_getitems: the bundle is stored under the
\* default language, whatever language was asked for.
get_champion_info_getitems_DefaultKey(t, outcome) ==
    /\ pc[t] = "getitems"
    /\ IF outcome = "error"
       THEN /\ Finish(t, InfoCall(frame[t].language, frame[t].force_refresh,
                                  frame[t].requests,
                                  Append(frame[t].responses, outcome),
                                  Raise("TransportError")))
            /\ UNCHANGED cache
       ELSE LET language       == frame[t].language
                items_response == Response(outcome, "getitems", language, frame[t].rid)
                stored == IF BothSucceeded(frame[t].champions_response, items_response)
                          THEN __setitem__("english", frame[t].champions_response,
                                       items_response)
                          ELSE cache
            IN  /\ cache' = stored
                /\ Finish(t, InfoCall(language, frame[t].force_refresh,
                                      frame[t].requests,
                                      Append(frame[t].responses, outcome),
                                      Return(__getitem__(stored, language))))
    /\ UNCHANGED <<now, advances, fetchSeq, server_status, expanded>>

\* The await of "getitems" ends, then the rest of the coroutine.
get_champion_info_getitems(t, outcome) ==
    /\ pc[t] = "getitems"
    /\ IF outcome = "error"
       THEN /\ Finish(t, InfoCall(frame[t].language, frame[t].force_refresh,
                                  frame[t].requests,
                                  Append(frame[t].responses, outcome),
                                  Raise("TransportError")))
            /\ UNCHANGED cache
       ELSE LET language       == frame[t].language
                items_response == Response(outcome, "getitems", language, frame[t].rid)
                stored == IF BothSucceeded(frame[t].champions_response, items_response)
                          THEN __setitem__(language, frame[t].champions_response,
                                       items_response)
                          ELSE cache
            IN  /\ cache' = stored
                /\ Finish(t, InfoCall(language, frame[t].force_refresh,
                                      frame[t].requests,
                                      Append(frame[t].responses, outcome),
                                      Return(__getitem__(stored, language))))
    /\ UNCHANGED <<now, advances, fetchSeq, server_status, expanded>>

----------------------------------------------------------------------------
(* PartialPlayer *)

\* Mutant of private: `self.id < 0` in place of `self.id == 0`.
private_Negative(id) == id < 0

\* PartialPlayer.private
private(id) == id = 0

\* Player(self._api, response[0])
Player(response) == [kind |-> "Player", id |-> response.arg, data |-> response]

\* What the caller of _expand saw, with the requests the call made and how
\* each of them ended; `again`: a Player had been returned for this id before.
ExpandCall(id, requests, responses, outcome) ==
    [op |-> "_expand", id |-> id, requests |-> requests, responses |-> responses,
     outcome |-> outcome, again |-> id \in expanded]

\* Mutant of expand: a player expanded before is answered from memory, with
\* no request.
_expand_Memoized(t, id) ==
    /\ Ready(t)
    /\ IF private(id)
       THEN /\ Finish(t, ExpandCall(id, <<>>, <<>>, Raise("Private")))
            /\ UNCHANGED fetchSeq
       ELSE IF id \in expanded
            THEN /\ Finish(t, ExpandCall(id, <<>>, <<>>,
                        Return(Player(Response("data", "getplayer", id, 0)))))
                 /\ UNCHANGED fetchSeq
            ELSE /\ fetchSeq < MaxFetches
                 /\ fetchSeq' = fetchSeq + 1
                 /\ Suspend(t, "getplayer",
                        [op |-> "_expand", id |-> id, rid |-> fetchSeq + 1,
                         requests |-> <<"getplayer">>])
    /\ UNCHANGED <<now, advances, server_status, cache, expanded>>

\* PartialPlayer._expand up to its await: raise Private, or request "getplayer".
_expand(t, id) ==
    /\ Ready(t)
    /\ IF private(id)
       THEN /\ Finish(t, ExpandCall(id, <<>>, <<>>, Raise("Private")))
            /\ UNCHANGED fetchSeq
       ELSE /\ fetchSeq < MaxFetches
            /\ fetchSeq' = fetchSeq + 1
            /\ Suspend(t, "getplayer",
                   [op |-> "_expand", id |-> id, rid |-> fetchSeq + 1,
                    requests |-> <<"getplayer">>])
    /\ UNCHANGED <<now, advances, server_status, cache, expanded>>

\* The await of "getplayer" ends: a Player, or None for an empty response.
_expand_resume(t, outcome) ==
    /\ pc[t] = "getplayer"
    /\ IF outcome = "error"
       THEN /\ Finish(t, ExpandCall(frame[t].id, frame[t].requests, <<outcome>>,
                                    Raise("TransportError")))
            /\ UNCHANGED expanded
       ELSE LET response == Response(outcome, "getplayer", frame[t].id, frame[t].rid)
            IN  IF Truthy(response)
                THEN /\ Finish(t, ExpandCall(frame[t].id, frame[t].requests,
                                             <<outcome>>, Return(Player(response))))
                     /\ expanded' = expanded \cup {frame[t].id}
                ELSE /\ Finish(t, ExpandCall(frame[t].id, frame[t].requests,
                                             <<outcome>>, Return(None)))
                     /\ UNCHANGED expanded
    /\ UNCHANGED <<now, advances, fetchSeq, server_status, cache>>

----------------------------------------------------------------------------
(* The program: tasks calling into one PaladinsAPI instance *)

\* PaladinsAPI.__init__: no status, an empty DataCache, no call under way.
ApiInit ==
    /\ now = 0
    /\ advances = 0
    /\ fetchSeq = 0
    /\ server_status = None
    /\ cache = [l \in Languages |-> None]
    /\ pc = [t \in Tasks |-> "idle"]
    /\ frame = [t \in Tasks |-> NoFrame]
    /\ last = NoCall
    /\ expanded = {}

\* The equality harness is not used.
EqOff ==
    /\ a = None /\ b = None /\ debug = TRUE
    /\ eqpc = "off" /\ eqab = NoResult /\ eqba = NoResult

\* The lookup harness is not used.
GetOff ==
    /\ iterable = <<>> /\ attrs = <<>> /\ name_or_id = None
    /\ getpc = "off" /\ getres = NoResult
    /\ history = None

Init == ApiInit /\ EqOff /\ GetOff

Next ==
    \/ \E d \in Steps : Advance(d) /\ UNCHANGED <<eqVars, getVars>>
    \/ \E t \in Tasks, f \in BOOLEAN :
           get_server_status(t, f) /\ UNCHANGED <<eqVars, getVars>>
    \/ \E t \in Tasks, o \in Outcomes :
           get_server_status_resume(t, o) /\ UNCHANGED <<eqVars, getVars>>
    \/ \E t \in Tasks, l \in Languages, f \in BOOLEAN :
           get_champion_info(t, l, f) /\ UNCHANGED <<eqVars, getVars>>
    \/ \E t \in Tasks, o \in Outcomes :
           get_champion_info_getgods(t, o) /\ UNCHANGED <<eqVars, getVars>>
    \/ \E t \in Tasks, o \in Outcomes :
           get_champion_info_getitems(t, o) /\ UNCHANGED <<eqVars, getVars>>
    \/ \E t \in Tasks, i \in PlayerIds :
           _expand(t, i) /\ UNCHANGED <<eqVars, getVars>>
    \/ \E t \in Tasks, o \in Outcomes :
           _expand_resume(t, o) /\ UNCHANGED <<eqVars, getVars>>

Spec == Init /\ [][Next]_vars

\* The status cache alone.
NextStatus ==
    \/ \E d \in Steps : Advance(d) /\ UNCHANGED <<eqVars, getVars>>
    \/ \E t \in Tasks, f \in BOOLEAN :
           get_server_status(t, f) /\ UNCHANGED <<eqVars, getVars>>
    \/ \E t \in Tasks, o \in Outcomes :
           get_server_status_resume(t, o) /\ UNCHANGED <<eqVars, getVars>>

SpecStatus == Init /\ [][NextStatus]_vars

\* The reference-data cache alone.
NextInfo ==
    \/ \E d \in Steps : Advance(d) /\ UNCHANGED <<eqVars, getVars>>
    \/ \E t \in Tasks, l \in Languages, f \in BOOLEAN :
           get_champion_info(t, l, f) /\ UNCHANGED <<eqVars, getVars>>
    \/ \E t \in Tasks, o \in Outcomes :
           get_champion_info_getgods(t, o) /\ UNCHANGED <<eqVars, getVars>>
    \/ \E t \in Tasks, o \in Outcomes :
           get_champion_info_getitems(t, o) /\ UNCHANGED <<eqVars, getVars>>

SpecInfo == Init /\ [][NextInfo]_vars

\* The two caches together.
NextCaches ==
    \/ \E d \in Steps : Advance(d) /\ UNCHANGED <<eqVars, getVars>>
    \/ \E t \in Tasks, f \in BOOLEAN :
           get_server_status(t, f) /\ UNCHANGED <<eqVars, getVars>>
    \/ \E t \in Tasks, o \in Outcomes :
           get_server_status_resume(t, o) /\ UNCHANGED <<eqVars, getVars>>
    \/ \E t \in Tasks, l \in Languages, f \in BOOLEAN :
           get_champion_info(t, l, f) /\ UNCHANGED <<eqVars, getVars>>
    \/ \E t \in Tasks, o \in Outcomes :
           get_champion_info_getgods(t, o) /\ UNCHANGED <<eqVars, getVars>>
    \/ \E t \in Tasks, o \in Outcomes :
           get_champion_info_getitems(t, o) /\ UNCHANGED <<eqVars, getVars>>

SpecCaches == Init /\ [][NextCaches]_vars

\* A PaladinsAPI that has run for a while: the entries are absent, or were
\* stored at time 0 by earlier refreshes, and it is now time 0 (they are fresh)
\* or 12 hours later (they are stale).
Stored(language) ==
    [value |-> ChampionInfo(language, Response("data", "getgods", language, 0),
                            Response("data", "getitems", language, 0)),
     populated_at |-> 0]

StoredStatus ==
    [status  |-> ServerStatus(Response("data", "gethirezserverstatus", "", 0)),
     expires |-> StatusExpiry(0)]

\* The two caches on such a PaladinsAPI, at one instant: the calls interleave
\* while the clock stands still.
InitPopulated ==
    /\ EqOff /\ GetOff
    /\ now \in {0, RefreshEvery}
    /\ advances = 0
    /\ fetchSeq = 0
    /\ server_status \in {None, StoredStatus}
    /\ cache \in {[l \in Languages |-> None], [l \in Languages |-> Stored(l)]}
    /\ pc = [t \in Tasks |-> "idle"]
    /\ frame = [t \in Tasks |-> NoFrame]
    /\ last = NoCall
    /\ expanded = {}

NextPopulated ==
    \/ \E t \in Tasks, f \in BOOLEAN :
           get_server_status(t, f) /\ UNCHANGED <<eqVars, getVars>>
    \/ \E t \in Tasks, o \in Outcomes :
           get_server_status_resume(t, o) /\ UNCHANGED <<eqVars, getVars>>
    \/ \E t \in Tasks, l \in Languages, f \in BOOLEAN :
           get_champion_info(t, l, f) /\ UNCHANGED <<eqVars, getVars>>
    \/ \E t \in Tasks, o \in Outcomes :
           get_champion_info_getgods(t, o) /\ UNCHANGED <<eqVars, getVars>>
    \/ \E t \in Tasks, o \in Outcomes :
           get_champion_info_getitems(t, o) /\ UNCHANGED <<eqVars, getVars>>

SpecPopulated == InitPopulated /\ [][NextPopulated]_vars

\* Expansion of partial players alone.
NextExpand ==
    \/ \E d \in Steps : Advance(d) /\ UNCHANGED <<eqVars, getVars>>
    \/ \E t \in Tasks, i \in PlayerIds :
           _expand(t, i) /\ UNCHANGED <<eqVars, getVars>>
    \/ \E t \in Tasks, o \in Outcomes :
           _expand_resume(t, o) /\ UNCHANGED <<eqVars, getVars>>

SpecExpand == Init /\ [][NextExpand]_vars

----------------------------------------------------------------------------
(* PartialPlayer.__eq__ and the == operator *)

Classes == {"PartialPlayer", "Player"}

\* class Player(PartialPlayer): the proper subclasses of a class.
IsProperSubclass(sub, cls) == sub = "Player" /\ cls = "PartialPlayer"

\* isinstance(obj, cls)
isinstance(obj, cls) == obj.cls = cls \/ IsProperSubclass(obj.cls, cls)

\* The player objects compared: a class and an id.
Entities == [cls : Classes, id : PlayerIds]

\* PartialPlayer.__eq__(self, other), inherited unchanged by Player. The assert
\* is compiled out when Python runs with -O (__debug__ is False).
__eq__(self, other, assertions) ==
    IF assertions /\ ~isinstance(other, self.cls)
    THEN Raise("AssertionError")
    ELSE Return(self.id # 0 /\ other.id # 0 /\ self.id = other.id)

\* x == y: Python asks the right operand first when its class is a proper
\* subclass of the left operand's class, else the left operand; __eq__ above
\* never answers NotImplemented, so the first answer is the outcome.
EqOp(x, y, assertions) ==
    IF IsProperSubclass(y.cls, x.cls)
    THEN __eq__(y, x, assertions)
    ELSE __eq__(x, y, assertions)

\* Any two players, with assertions on or off.
InitEq ==
    /\ ApiInit /\ GetOff
    /\ a \in Entities /\ b \in Entities /\ debug \in BOOLEAN
    /\ eqpc = "ready" /\ eqab = NoResult /\ eqba = NoResult

\* Evaluate a == b and b == a.
Compare ==
    /\ eqpc = "ready"
    /\ eqab' = EqOp(a, b, debug)
    /\ eqba' = EqOp(b, a, debug)
    /\ eqpc' = "done"
    /\ UNCHANGED <<a, b, debug, cacheVars, getVars>>

NextEq == Compare

SpecEq == InitEq /\ [][NextEq]_vars

----------------------------------------------------------------------------
(* utils.get *)

\* The elements searched: objects with attributes id, name and champion.id.
Names    == {"Ash", "Bomb King"}
Ids      == 1..2
Elements == [id : Ids, name : Names, champion : [id : Ids]]

\* A keyword is spelled as a sequence of tokens, "_" being one underscore:
\* champion__id is <<"champion", "_", "_", "id">>.
Keywords == {<<"id">>, <<"name">>, <<"champion", "_", "_", "id">>}

\* 0..n-element sequences over S
RECURSIVE SeqsUpTo(_, _)
SeqsUpTo(S, n) ==
    IF n = 0 THEN {<<>>}
    ELSE LET shorter == SeqsUpTo(S, n - 1)
         IN  shorter \cup {Append(q, x) : q \in {r \in shorter : Len(r) = n - 1}, x \in S}

\* attr.replace('__', '.'): every "__", from the left, becomes a "."
RECURSIVE replace(_)
replace(attr) ==
    IF Len(attr) = 0 THEN <<>>
    ELSE IF Len(attr) >= 2 /\ attr[1] = "_" /\ attr[2] = "_"
         THEN <<".">> \o replace(SubSeq(attr, 3, Len(attr)))
         ELSE <<attr[1]>> \o replace(Tail(attr))

\* attrgetter(path)(obj): follow the dotted path, one attribute after another.
RECURSIVE attrgetter(_, _)
attrgetter(path, obj) ==
    IF Len(path) = 0 THEN obj
    ELSE IF path[1] = "." THEN attrgetter(Tail(path), obj)
         ELSE attrgetter(Tail(path), obj[path[1]])

\* for getter, val in getters: if getter(element) != val: break / else: return
AllMatch(element, kwargs) ==
    \A k \in DOMAIN kwargs : attrgetter(replace(k), element) = kwargs[k]

\* for element in iterable: ... return element / return None
RECURSIVE FirstFrom(_, _, _)
FirstFrom(seq, i, kwargs) ==
    IF i > Len(seq) THEN Return(None)
    ELSE IF AllMatch(seq[i], kwargs) THEN Return(seq[i])
         ELSE FirstFrom(seq, i + 1, kwargs)

\* get(iterable, **attrs). With one keyword, `attrs.pop()` is called without a
\* key, and dict.pop raises TypeError before any element is looked at.
get(seq, kwargs) ==
    IF Cardinality(DOMAIN kwargs) = 1
    THEN Raise("TypeError")
    ELSE FirstFrom(seq, 1, kwargs)

\* The keyword arguments: each keyword at most once, with a value of its kind.
Kwargs ==
    {[k \in ks |-> CASE k = <<"id">> -> i
                     [] k = <<"name">> -> n
                     [] OTHER -> c] :
        ks \in SUBSET Keywords, i \in Ids, n \in Names, c \in Ids}

\* Any iterable of at most MaxLen elements and any keyword arguments.
InitGet ==
    /\ ApiInit /\ EqOff
    /\ iterable \in SeqsUpTo(Elements, MaxLen)
    /\ attrs \in Kwargs
    /\ name_or_id = None
    /\ history = None
    /\ getpc = "ready" /\ getres = NoResult

\* Call get(iterable, **attrs).
CallGet ==
    /\ getpc = "ready"
    /\ getres' = get(iterable, attrs)
    /\ getpc' = "done"
    /\ UNCHANGED <<iterable, attrs, name_or_id, history, cacheVars, eqVars>>

NextGet == CallGet

SpecGet == InitGet /\ [][NextGet]_vars

----------------------------------------------------------------------------
(* utils.get_name_or_id *)

\* The keys handed to get_name_or_id: a value with its Python type. The type
\* hint allows int and str; nothing stops a caller from passing another type.
Keys ==
    [type : {"int"}, value : Ids] \cup [type : {"str"}, value : Names]
        \cup [type : {"float", "NoneType"}, value : {"other"}]

\* get(iterable, id = name_or_id), get(iterable, name = name_or_id)
OneKeyword(keyword, value) == [k \in {keyword} |-> value]

\* get_name_or_id(iterable, name_or_id): no branch is taken for a key that is
\* neither an int nor a str, and the function ends with an implicit None.
get_name_or_id(seq, key) ==
    IF key.type = "int" THEN get(seq, OneKeyword(<<"id">>, key.value))
    ELSE IF key.type = "str" THEN get(seq, OneKeyword(<<"name">>, key.value))
         ELSE Return(None)

\* Any iterable of at most MaxLen elements and any key.
InitLookup ==
    /\ ApiInit /\ EqOff
    /\ iterable \in SeqsUpTo(Elements, MaxLen)
    /\ attrs = <<>>
    /\ name_or_id \in Keys
    /\ history = None
    /\ getpc = "ready" /\ getres = NoResult

\* Call get_name_or_id(iterable, name_or_id).
CallGetNameOrId ==
    /\ getpc = "ready"
    /\ getres' = get_name_or_id(iterable, name_or_id)
    /\ getpc' = "done"
    /\ UNCHANGED <<iterable, attrs, name_or_id, history, cacheVars, eqVars>>

NextLookup == CallGetNameOrId

SpecLookup == InitLookup /\ [][NextLookup]_vars

----------------------------------------------------------------------------
(* The derived operations: PartialPlayer.get_status, get_friends,            *)
(* get_loadouts, get_champion_stats, get_match_history; PaladinsAPI.get_match *)

PlayerOps  == {"get_status", "get_friends"}
CatalogOps == {"get_loadouts", "get_champion_stats", "get_match_history", "get_match"}

\* Mutant of ChecksPrivate: only get_status and get_friends refuse a private
\* player; the operations that need the catalog go on to fetch it.
ChecksPrivate_DirectOnly(op) == op \in PlayerOps

\* `if self.private: raise Private` opens every PartialPlayer method;
\* PaladinsAPI.get_match takes a match id and has no such check.
ChecksPrivate(op) == op # "get_match"

\* Mutant of EnsuresChampionInfo: the catalog is never asked for first.
EnsuresChampionInfo_Never(op) == FALSE

\* `await self._api.get_champion_info(language)` comes before the request.
EnsuresChampionInfo(op) == op \in CatalogOps

\* The one request each operation makes for its own data.
RequestOf(op) ==
    CASE op = "get_status"         -> "getplayerstatus"
      [] op = "get_friends"        -> "getfriends"
      [] op = "get_loadouts"       -> "getplayerloadouts"
      [] op = "get_champion_stats" -> "getgodranks"
      [] op = "get_match_history"  -> "getmatchhistory"
      [] op = "get_match"          -> "getmatchdetails"

DependentRequests == {RequestOf(op) : op \in PlayerOps \cup CatalogOps}

\* The players the operations are called on: a private one (id 0) and one
\* that is not. get_match is called with a match id instead.
Subjects == {0, 1}
MatchIds == {1}
ArgsOf(op) == IF op = "get_match" THEN MatchIds ELSE Subjects

\* The values of a record's ret_msg field: null, or a message.
RetMsgs == {"", "No Match History"}

\* The records of a response, with the fields the operations read.
Records(request) ==
    CASE request = "getplayerstatus"   -> [status : {1, 5}]
      [] request = "getfriends"        -> [player_id : Subjects]
      [] request = "getplayerloadouts" -> [playerId : Subjects]
      [] request = "getgodranks"       -> [champion_id : Ids]
      [] request = "getmatchhistory"   -> [ret_msg : RetMsgs, Match : Ids]
      [] request = "getmatchdetails"   -> [Match : MatchIds]

\* What a dependent request can end in: a list of records, or a transport error.
NoResponse == [kind |-> "none"]
Failed     == [kind |-> "error"]
Rows(rows) == [kind |-> "rows", rows |-> rows]
Responses(request) ==
    {Rows(rows) : rows \in SeqsUpTo(Records(request), MaxRecords)} \cup {Failed}

\* The objects built from the records. A Python list is a tagged sequence,
\* and [f(x) for x in response] is the list of f(response[i]) in order.
List(items)    == [kind |-> "list", items |-> items]
PartialPlayer(id) == [cls |-> "PartialPlayer", id |-> id]
PlayerStatus(id, row) == [kind |-> "PlayerStatus", player |-> id, data |-> row]
Loadout(id, language, row) ==
    [kind |-> "Loadout", player |-> id, language |-> language, data |-> row]
ChampionStats(id, language, row) ==
    [kind |-> "ChampionStats", player |-> id, language |-> language, data |-> row]
PartialMatch(id, language, row) ==
    [kind |-> "PartialMatch", player |-> id, language |-> language, data |-> row]
Match(language, rows) == [kind |-> "Match", language |-> language, data |-> rows]

\* What each operation returns for the response to its own request.
get_status_result(id, response) ==
    IF response # <<>> /\ response[1].status # 5
    THEN PlayerStatus(id, response[1])
    ELSE None

get_friends_result(response) ==
    List([i \in 1..Len(response) |-> PartialPlayer(response[i].player_id)])

get_loadouts_result(id, language, response) ==
    IF response = <<>> \/ (response # <<>> /\ response[1].playerId = 0)
    THEN List(<<>>)
    ELSE List([i \in 1..Len(response) |-> Loadout(id, language, response[i])])

get_champion_stats_result(id, language, response) ==
    List([i \in 1..Len(response) |-> ChampionStats(id, language, response[i])])

\* Mutant of get_match_history_result: the ret_msg of the first record is not
\* looked at.
get_match_history_result_NoRetMsg(id, language, response) ==
    IF response = <<>>
    THEN List(<<>>)
    ELSE List([i \in 1..Len(response) |-> PartialMatch(id, language, response[i])])

\* if not response or response and response[0]["ret_msg"]: return []
get_match_history_result(id, language, response) ==
    IF response = <<>> \/ (response # <<>> /\ response[1].ret_msg # "")
    THEN List(<<>>)
    ELSE List([i \in 1..Len(response) |-> PartialMatch(id, language, response[i])])

get_match_result(language, response) ==
    IF response # <<>> THEN Match(language, response) ELSE None

Result(op, id, language, response) ==
    CASE op = "get_status"         -> get_status_result(id, response)
      [] op = "get_friends"        -> get_friends_result(response)
      [] op = "get_loadouts"       -> get_loadouts_result(id, language, response)
      [] op = "get_champion_stats" -> get_champion_stats_result(id, language, response)
      [] op = "get_match_history"  -> get_match_history_result(id, language, response)
      [] op = "get_match"          -> get_match_result(language, response)


\* What the caller of a derived operation saw: the requests its call chain
\* made in order, the response to its own request, and the outcome.
PlayerCall(op, id, requests, response, outcome) ==
    [op |-> op, id |-> id, requests |-> requests,
     response |-> response, outcome |-> outcome]

CatalogCall(op, id, language, requests, response, outcome) ==
    [op |-> op, id |-> id, language |-> language, requests |-> requests,
     response |-> response, outcome |-> outcome]

\* get_status, get_friends: from the call to the await of the request.
player_call(t, op, id) ==
    /\ Ready(t)
    /\ IF ChecksPrivate(op) /\ private(id)
       THEN Finish(t, PlayerCall(op, id, <<>>, NoResponse, Raise("Private")))
       ELSE Suspend(t, RequestOf(op),
                [op |-> op, id |-> id, requests |-> <<RequestOf(op)>>])
    /\ UNCHANGED <<now, advances, fetchSeq, server_status, cache, expanded>>

\* get_status, get_friends: the await of the request ends.
player_resume(t, response) ==
    /\ pc[t] \in {RequestOf(op) : op \in PlayerOps}
    /\ response \in Responses(pc[t])
    /\ Finish(t, PlayerCall(frame[t].op, frame[t].id, frame[t].requests, response,
                    IF response = Failed
                    THEN Raise("TransportError")
                    ELSE Return(Result(frame[t].op, frame[t].id, "", response.rows))))
    /\ UNCHANGED <<now, advances, fetchSeq, server_status, cache, expanded>>

\* get_loadouts, get_champion_stats, get_match_history, get_match: from the
\* call, into get_champion_info(language), to the first await reached: that of
\* "getgods" when the entry needs refreshing, else that of the operation's own
\* request.
catalog_call(t, op, id, language) ==
    /\ Ready(t)
    /\ IF ChecksPrivate(op) /\ private(id)
       THEN /\ Finish(t, CatalogCall(op, id, language, <<>>, NoResponse,
                                     Raise("Private")))
            /\ UNCHANGED fetchSeq
       ELSE IF EnsuresChampionInfo(op) /\ InfoNeedsRefresh(language, FALSE)
            THEN /\ fetchSeq < MaxFetches
                 /\ fetchSeq' = fetchSeq + 1
                 /\ Suspend(t, "nested_getgods",
                        [op |-> op, id |-> id, language |-> language,
                         requests |-> <<"getgods">>, rid |-> fetchSeq + 1])
            ELSE /\ Suspend(t, RequestOf(op),
                        [op |-> op, id |-> id, language |-> language,
                         requests |-> <<RequestOf(op)>>])
                 /\ UNCHANGED fetchSeq
    /\ UNCHANGED <<now, advances, server_status, cache, expanded>>

\* Inside the awaited get_champion_info: the await of "getgods" ends and
\* "getitems" is requested; an error leaves the whole call chain.
nested_getgods(t, outcome) ==
    /\ pc[t] = "nested_getgods"
    /\ IF outcome = "error"
       THEN Finish(t, CatalogCall(frame[t].op, frame[t].id, frame[t].language,
                                  frame[t].requests, NoResponse,
                                  Raise("TransportError")))
       ELSE Suspend(t, "nested_getitems",
                [op |-> frame[t].op, id |-> frame[t].id,
                 language |-> frame[t].language,
                 requests |-> Append(frame[t].requests, "getitems"),
                 rid |-> frame[t].rid,
                 champions_response |->
                     Response(outcome, "getgods", frame[t].language, frame[t].rid)])
    /\ UNCHANGED <<now, advances, fetchSeq, server_status, cache, expanded>>

\* Inside the awaited get_champion_info: the await of "getitems" ends, the
\* entry is stored when both responses have data, get_champion_info returns
\* (its value is not used) and the operation's own request is made.
nested_getitems(t, outcome) ==
    /\ pc[t] = "nested_getitems"
    /\ IF outcome = "error"
       THEN /\ Finish(t, CatalogCall(frame[t].op, frame[t].id, frame[t].language,
                                     frame[t].requests, NoResponse,
                                     Raise("TransportError")))
            /\ UNCHANGED cache
       ELSE LET language       == frame[t].language
                items_response == Response(outcome, "getitems", language, frame[t].rid)
            IN  /\ cache' = IF BothSucceeded(frame[t].champions_response, items_response)
                            THEN __setitem__(language, frame[t].champions_response,
                                             items_response)
                            ELSE cache
                /\ Suspend(t, RequestOf(frame[t].op),
                       [op |-> frame[t].op, id |-> frame[t].id,
                        language |-> language,
                        requests |-> Append(frame[t].requests, RequestOf(frame[t].op))])
    /\ UNCHANGED <<now, advances, fetchSeq, server_status, expanded>>

\* The await of the operation's own request ends.
catalog_resume(t, response) ==
    /\ pc[t] \in {RequestOf(op) : op \in CatalogOps}
    /\ response \in Responses(pc[t])
    /\ Finish(t, CatalogCall(frame[t].op, frame[t].id, frame[t].language,
                    frame[t].requests, response,
                    IF response = Failed
                    THEN Raise("TransportError")
                    ELSE Return(Result(frame[t].op, frame[t].id, frame[t].language,
                                       response.rows))))
    /\ UNCHANGED <<now, advances, fetchSeq, server_status, cache, expanded>>

\* get_match_history from the return of its request on its own: any player
\* that is not private, any language, any response of at most MaxLen records.
InitHistory ==
    /\ ApiInit /\ EqOff
    /\ iterable = <<>> /\ attrs = <<>> /\ name_or_id = None
    /\ history \in [self     : PlayerIds \ {0},
                     language : Languages,
                     response : SeqsUpTo(Records("getmatchhistory"), MaxLen)]
    /\ getpc = "ready" /\ getres = NoResult

\* The rest of get_match_history, run on the response.
ReturnHistory ==
    /\ getpc = "ready"
    /\ getres' = Return(get_match_history_result(history.self, history.language,
                                                 history.response))
    /\ getpc' = "done"
    /\ UNCHANGED <<iterable, attrs, name_or_id, history, cacheVars, eqVars>>

NextHistory == ReturnHistory

SpecHistory == InitHistory /\ [][NextHistory]_vars

\* The derived operations begin on such a PaladinsAPI.
InitDerived ==
    /\ EqOff /\ GetOff
    /\ now \in {0, RefreshEvery}
    /\ advances = 0
    /\ fetchSeq = 0
    /\ server_status = None
    /\ cache \in {[l \in Languages |-> None], [l \in Languages |-> Stored(l)]}
    /\ now = RefreshEvery => cache # [l \in Languages |-> None]
    /\ pc = [t \in Tasks |-> "idle"]
    /\ frame = [t \in Tasks |-> NoFrame]
    /\ last = NoCall
    /\ expanded = {}

\* The derived operations alone.
NextDerived ==
    \/ \E t \in Tasks, op \in PlayerOps : \E i \in ArgsOf(op) :
           player_call(t, op, i) /\ UNCHANGED <<eqVars, getVars>>
    \/ \E t \in Tasks, r \in UNION {Responses(RequestOf(op)) : op \in PlayerOps} :
           player_resume(t, r) /\ UNCHANGED <<eqVars, getVars>>
    \/ \E t \in Tasks, op \in CatalogOps, l \in Languages : \E i \in ArgsOf(op) :
           catalog_call(t, op, i, l) /\ UNCHANGED <<eqVars, getVars>>
    \/ \E t \in Tasks, o \in Outcomes :
           nested_getgods(t, o) /\ UNCHANGED <<eqVars, getVars>>
    \/ \E t \in Tasks, o \in Outcomes :
           nested_getitems(t, o) /\ UNCHANGED <<eqVars, getVars>>
    \/ \E t \in Tasks, r \in UNION {Responses(RequestOf(op)) : op \in CatalogOps} :
           catalog_resume(t, r) /\ UNCHANGED <<eqVars, getVars>>

SpecDerived == InitDerived /\ [][NextDerived]_vars

----------------------------------------------------------------------------
(* Properties of the reference-data cache *)

\* The entry of language k is present and less than 12 hours old.
Fresh(k) == cache[k] # None /\ now - cache[k].populated_at < RefreshEvery

\* Task t calls a coroutine in this step and suspends at its first await.
Suspends(t, at) == pc[t] = "idle" /\ pc'[t] = at

\* A call of `op` returns in this step without having been suspended.
ReturnsAtOnce(op) == pc' = pc /\ last'.op = op

\* Task t's coroutine, suspended at `at`, runs to its end in this step.
Completes(t, at) == pc[t] = at /\ pc'[t] = "idle"

\* C1. Cache stability: an entry is stamped with the time it is stored at, and
\* a call without force_refresh made less than 12 hours after that time makes
\* no request, leaves the cache as it is and returns the stored bundle.
C1_CacheStability ==
    [][ /\ \A k \in Languages :
              cache'[k] # cache[k] => cache'[k].populated_at = now
        /\ \A t \in Tasks :
              (Suspends(t, "getgods") /\ ~frame'[t].force_refresh)
                  => ~Fresh(frame'[t].language)
        /\ (ReturnsAtOnce("get_champion_info") /\ ~last'.force_refresh)
              => /\ Fresh(last'.language)
                 /\ last'.requests = <<>>
                 /\ last'.outcome = Return(cache[last'.language].value)
                 /\ cache' = cache
                 /\ fetchSeq' = fetchSeq
      ]_vars

\* C1 witness: a call without force_refresh, 30 seconds before the entry is
\* 12 hours old, has returned the stored bundle without any request.
C1_Witness ==
    /\ last.op = "get_champion_info"
    /\ ~last.force_refresh
    /\ last.requests = <<>>
    /\ cache[last.language] # None
    /\ now - cache[last.language].populated_at = RefreshEvery - 1
    /\ last.outcome = Return(cache[last.language].value)

\* A bundle built for language k from the two responses of one refresh.
WholeBundle(k, v) ==
    /\ v.kind = "ChampionInfo" /\ v.language = k
    /\ v.champions.kind = "data" /\ v.champions.req = "getgods"
    /\ v.items.kind = "data" /\ v.items.req = "getitems"
    /\ v.champions.arg = k /\ v.items.arg = k
    /\ v.champions.rid = v.items.rid

\* C2 (as claimed). A call without force_refresh that refreshed an entry 12
\* hours old or older has made exactly the two requests, once each, and has
\* returned: the new bundle when both responses had data, else the value that
\* was stored before and still is.
C2_RefreshOnceAndReturn ==
    LET k == last.language
    IN  (/\ last.op = "get_champion_info" /\ ~last.force_refresh
         /\ last.requests # <<>>
         /\ cache[k] # None
         /\ \/ last.responses = <<"data", "data">>
            \/ now - cache[k].populated_at >= RefreshEvery)
            => /\ last.requests = <<"getgods", "getitems">>
               /\ last.outcome = Return(cache[k].value)
               /\ last.responses = <<"data", "data">>
                     => cache[k].populated_at = now

\* Every stored entry is a bundle built from the champion and item responses
\* of one refresh, both with data.
C3_EntriesAreWhole ==
    \A k \in Languages : cache[k] = None \/ WholeBundle(k, cache[k].value)

\* A refresh that ends changes the cache only when both its responses had
\* data, and then it stores its own two responses under its own language.
C3_OnlyWholeReplaces ==
    \A t \in Tasks :
        /\ Completes(t, "getgods") => cache' = cache
        /\ Completes(t, "getitems") =>
              LET k == frame[t].language
              IN  IF last'.responses = <<"data", "data">>
                  THEN /\ \A l \in Languages \ {k} : cache'[l] = cache[l]
                       /\ WholeBundle(k, cache'[k].value)
                       /\ cache'[k].value.champions = frame[t].champions_response
                       /\ cache'[k].value.items.rid = frame[t].rid
                  ELSE cache' = cache

\* C3. Atomic bundle construction: every entry is absent or a bundle built from
\* the champion and item responses of one refresh, both with data; a refresh
\* one of whose requests failed or came back empty leaves the cache exactly as
\* it was.
C3_AtomicBundle == []C3_EntriesAreWhole /\ [][C3_OnlyWholeReplaces]_vars

\* C3 witness: a refresh whose champion response had data and whose item
\* response was empty has ended, and the entry stored before it is still there.
C3_Witness ==
    /\ last.op = "get_champion_info"
    /\ last.responses = <<"data", "empty">>
    /\ cache[last.language] # None
    /\ last.outcome = Return(cache[last.language].value)

\* C13. Concurrent refresh of one key: there is no single-flight. A call
\* returns without a request only on a fresh entry, whatever the other tasks
\* are doing, so two calls that both find the entry stale or absent each make
\* their own requests; each refresh whose two responses have data then writes
\* the entry, over whatever another refresh wrote before it, and what it writes
\* is the bundle of its own two responses, never a mix of two refreshes.
C13_ConcurrentRefresh ==
    [][ /\ ReturnsAtOnce("get_champion_info")
              => Fresh(last'.language) /\ ~last'.force_refresh
        /\ \A t \in Tasks :
              /\ Suspends(t, "getgods")
                    => /\ fetchSeq' = fetchSeq + 1
                       /\ frame'[t].rid = fetchSeq'
                       /\ \A u \in Tasks \ {t} :
                             pc[u] # "idle" => frame[u].rid # frame'[t].rid
              /\ (Completes(t, "getitems") /\ last'.responses = <<"data", "data">>)
                    => LET k == frame[t].language
                           r == frame[t].rid
                       IN  /\ cache'[k] =
                                 [value |-> ChampionInfo(k,
                                                Response("data", "getgods", k, r),
                                                Response("data", "getitems", k, r)),
                                  populated_at |-> now]
                           /\ last'.outcome = Return(cache'[k].value)
                           /\ WholeBundle(k, cache'[k].value)
      ]_vars

\* C13 witness: two calls without force_refresh found the same entry stale or
\* absent; one has just written the entry with its own pair of responses while
\* the other, which began before that write, is still waiting for its own
\* item response, its own champion response in hand.
C13_Witness ==
    \E t \in Tasks :
        /\ pc[t] = "getitems"
        /\ ~frame[t].force_refresh
        /\ Truthy(frame[t].champions_response)
        /\ last.op = "get_champion_info"
        /\ ~last.force_refresh
        /\ last.language = frame[t].language
        /\ last.responses = <<"data", "data">>
        /\ cache[last.language] # None
        /\ cache[last.language].populated_at = now
        /\ cache[last.language].value.champions.rid # frame[t].rid
        /\ last.outcome = Return(cache[last.language].value)

----------------------------------------------------------------------------
(* Properties of both caches *)

\* C4 (as claimed). A get_champion_info or get_server_status call one of whose
\* requests failed with a transport error has not raised: it has returned the
\* stored value, or None when nothing was ever stored.
C4_RefreshFailuresSwallowed ==
    /\ (last.op = "get_champion_info" /\ \E i \in DOMAIN last.responses :
                                             last.responses[i] = "error")
          => last.outcome = Return(__getitem__(cache, last.language))
    /\ (last.op = "get_server_status" /\ \E i \in DOMAIN last.responses :
                                             last.responses[i] = "error")
          => last.outcome = Return(StatusValue(server_status))

\* C5 (as claimed). A call with force_refresh has made every request of its
\* refresh (both catalog requests, or the one status request), and when that
\* refresh brought no new value it has returned the value stored before.
C5_ForcedRefresh ==
    /\ (last.op = "get_champion_info" /\ last.force_refresh)
          => /\ last.requests = <<"getgods", "getitems">>
             /\ last.outcome = Return(__getitem__(cache, last.language))
    /\ (last.op = "get_server_status" /\ last.force_refresh)
          => /\ last.requests = <<"gethirezserverstatus">>
             /\ last.outcome = Return(StatusValue(server_status))

\* C16 (as claimed). Entry persistence: a call returns None exactly when
\* nothing has been stored under its key, and once something is stored every
\* call for that key, forced or not, its refresh succeeding or failing,
\* returns a value that is not None.
C16_EntryPersistence ==
    /\ last.op = "get_champion_info"
          => /\ last.outcome.kind = "return"
                   => (last.outcome.value = None <=> cache[last.language] = None)
             /\ cache[last.language] # None
                   => /\ last.outcome.kind = "return"
                      /\ last.outcome.value # None
    /\ last.op = "get_server_status"
          => /\ last.outcome.kind = "return"
                   => (last.outcome.value = None <=> server_status = None)
             /\ server_status # None
                   => /\ last.outcome.kind = "return"
                      /\ last.outcome.value # None

\* A refresh of the reference data ends in this step without a new bundle: a
\* request of task t failed, or a response came back empty.
RefreshFails(t) ==
    \/ Completes(t, "getgods")
    \/ Completes(t, "getitems") /\ last'.responses # <<"data", "data">>

\* C17. A failed refresh does not renew freshness. An entry changes only in
\* the step in which a refresh of its key ends with data in both responses,
\* and then its value and its populated_at are written together, the new
\* bundle with the current time; a refresh that failed or came back empty
\* leaves value and populated_at as they were, so an entry that needed
\* refreshing before still does, and a call without force_refresh on an entry
\* that needs refreshing never returns without making the requests again. The
\* same holds of the status and its expiry.
C17_FailureKeepsStaleness ==
    [][ /\ \A k \in Languages :
              cache'[k] # cache[k]
                  => /\ \E t \in Tasks :
                            /\ Completes(t, "getitems")
                            /\ frame[t].language = k
                            /\ last'.responses = <<"data", "data">>
                     /\ cache'[k].populated_at = now
                     /\ cache[k] # None => cache'[k].value # cache[k].value
        /\ \A t \in Tasks :
              RefreshFails(t)
                  => /\ cache' = cache
                     /\ \A k \in Languages :
                           _needs_refreshing(k)' = _needs_refreshing(k)
        /\ (ReturnsAtOnce("get_champion_info") /\ ~last'.force_refresh)
              => ~_needs_refreshing(last'.language)
        /\ server_status' # server_status
              => \E t \in Tasks :
                     /\ Completes(t, "gethirezserverstatus")
                     /\ last'.responses = <<"data">>
                     /\ server_status'.expires = frame[t].now + StatusTTL
        /\ (ReturnsAtOnce("get_server_status") /\ ~last'.force_refresh)
              => (server_status # None /\ now < server_status.expires)
      ]_vars

\* C17 witness: a refresh of an entry 12 hours old, by a call without
\* force_refresh, has ended with an empty item response; the entry is as old
\* as before and still needs refreshing.
C17_Witness ==
    /\ last.op = "get_champion_info"
    /\ ~last.force_refresh
    /\ last.responses = <<"data", "empty">>
    /\ cache[last.language] # None
    /\ now - cache[last.language].populated_at >= RefreshEvery
    /\ _needs_refreshing(last.language)

\* The call this step belongs to is a get_champion_info for language k.
StepOfInfo(k) ==
    \/ \E t \in Tasks :
           /\ pc'[t] # pc[t]
           /\ \/ frame[t].op = "get_champion_info" /\ frame[t].language = k
              \/ frame'[t].op = "get_champion_info" /\ frame'[t].language = k
    \/ /\ ReturnsAtOnce("get_champion_info")
       /\ last'.language = k

\* The call this step belongs to is a get_server_status.
StepOfStatus ==
    \/ \E t \in Tasks :
           /\ pc'[t] # pc[t]
           /\ \/ frame[t].op = "get_server_status"
              \/ frame'[t].op = "get_server_status"
    \/ ReturnsAtOnce("get_server_status")

\* C19. Key isolation: a step of a get_champion_info for one language leaves
\* the entry of every other language and the stored status as they were,
\* whatever the call ends in, and a step of a get_server_status leaves every
\* entry of the reference-data cache as it was.
C19_KeyIsolation ==
    [][ /\ \A k \in Languages :
              StepOfInfo(k)
                  => /\ \A l \in Languages \ {k} : cache'[l] = cache[l]
                     /\ server_status' = server_status
        /\ StepOfStatus => cache' = cache
      ]_vars

\* C19 witness: a get_champion_info for one language has replaced its entry
\* with a new bundle, while the entry of the other language and the stored
\* status are still the ones stored before.
C19_Witness ==
    \E k \in Languages, l \in Languages :
        /\ k # l
        /\ last.op = "get_champion_info" /\ last.language = k
        /\ last.responses = <<"data", "data">>
        /\ cache[k] # None /\ cache[k] # Stored(k)
        /\ last.outcome = Return(cache[k].value)
        /\ cache[l] = Stored(l)
        /\ server_status = StoredStatus

----------------------------------------------------------------------------
(* Properties of the status cache *)

\* C6. Status cache TTL: a refresh that stores a status gives it the expiry
\* "time of its call + 1 minute" (t0 is the time of the call that stored the
\* status); a call without force_refresh before that expiry makes no request
\* and returns the stored object; one at or after the expiry, or with nothing
\* stored, makes exactly one request.
C6_StatusTTL ==
    [][ \A t \in Tasks :
          /\ Suspends(t, "gethirezserverstatus")
                => /\ frame'[t].now = now
                   /\ frame'[t].requests = <<"gethirezserverstatus">>
                   /\ ~frame'[t].force_refresh
                         => (server_status = None \/ now >= server_status.expires)
          /\ Completes(t, "gethirezserverstatus")
                => /\ last'.requests = <<"gethirezserverstatus">>
                   /\ server_status' # server_status
                         => server_status'.expires = frame[t].now + StatusTTL
          /\ (ReturnsAtOnce("get_server_status") /\ ~last'.force_refresh)
                => /\ server_status # None
                   /\ now < server_status.expires
                   /\ last'.requests = <<>>
                   /\ last'.outcome = Return(server_status.status)
                   /\ server_status' = server_status
                   /\ fetchSeq' = fetchSeq
      ]_vars

\* C6 witness: 30 seconds after the call that stored the status, a call without
\* force_refresh has returned the stored object without a request.
C6_Witness ==
    /\ last.op = "get_server_status"
    /\ ~last.force_refresh
    /\ last.requests = <<>>
    /\ server_status # None
    /\ now = server_status.expires - StatusTTL + 1
    /\ last.outcome = Return(server_status.status)

\* The stored expiry is never later than the current time plus 1 minute, and
\* the time a suspended refresh read at its start is never later than the
\* current time.
C20_ExpiryBounded ==
    /\ server_status # None => server_status.expires <= now + StatusTTL
    /\ \A t \in Tasks :
          pc[t] = "gethirezserverstatus" => frame[t].now <= now

\* A refresh whose response has data stores the time it read before its
\* request plus 1 minute, whatever the time is when the response arrives.
C20_StoresCallStart ==
    \A t \in Tasks :
        (Completes(t, "gethirezserverstatus") /\ last'.responses = <<"data">>)
            => /\ server_status'.expires = frame[t].now + StatusTTL
               /\ server_status'.expires <= now' + StatusTTL
               /\ last'.outcome = Return(server_status'.status)

\* C20. Status freshness is measured from the start of the call: the expiry
\* stored by a successful refresh is the time read before the request was
\* made plus 1 minute, so in every reachable state the stored expiry is at
\* most the current time plus 1 minute, however long the request took.
C20_ExpiryFromCallStart == []C20_ExpiryBounded /\ [][C20_StoresCallStart]_vars

\* C20 witness: a refresh whose request took 30 seconds has stored a status
\* that expires 30 seconds from now, not a minute from now.
C20_Witness ==
    /\ last.op = "get_server_status"
    /\ last.responses = <<"data">>
    /\ server_status # None
    /\ last.outcome = Return(server_status.status)
    /\ server_status.expires = now + StatusTTL - 1

\* C21, as stated. Status timestamp monotonicity: under any interleaving of
\* concurrent get_server_status calls, the expiry of the stored status never
\* decreases.
C21_ExpiryNeverDecreases ==
    [][ (server_status # None /\ server_status' # None)
            => server_status'.expires >= server_status.expires ]_vars

\* C21, amended. The last refresh to complete wins: a refresh whose response
\* has data replaces the stored status whatever is stored, with the time it
\* read at its own start plus 1 minute; nothing else changes the stored
\* status. So the expiry never decreases when the completing refresh made its
\* request after the refresh whose status it replaces, and when the expiry
\* decreases the completing refresh made its request before that one.
C21_LastCompletionWins ==
    [][ /\ \A t \in Tasks :
              (Completes(t, "gethirezserverstatus") /\ last'.responses = <<"data">>)
                  => /\ server_status' # None
                     /\ server_status'.status.data.rid = frame[t].rid
                     /\ server_status'.expires = frame[t].now + StatusTTL
                     /\ server_status # None
                           => /\ frame[t].rid > server_status.status.data.rid
                                    => server_status'.expires >= server_status.expires
                              /\ server_status'.expires < server_status.expires
                                    => frame[t].rid < server_status.status.data.rid
        /\ server_status' # server_status
              => \E t \in Tasks :
                    /\ Completes(t, "gethirezserverstatus")
                    /\ last'.responses = <<"data">>
      ]_vars

\* C21 witness: two refreshes overlapped, and the one that made its request
\* first was the last to complete: the stored status is its own, with an
\* expiry counted from a start that lies in the past, although a request made
\* after its own has already ended.
C21_Witness ==
    /\ last.op = "get_server_status"
    /\ last.responses = <<"data">>
    /\ server_status # None
    /\ last.outcome = Return(server_status.status)
    /\ server_status.status.data.rid < fetchSeq
    /\ server_status.expires < now + StatusTTL
    /\ \A t \in Tasks : pc[t] = "idle"

----------------------------------------------------------------------------
(* Properties of expansion *)

\* C7. Expansion precondition: _expand on a player whose id is 0 raises
\* Private at once, and no request is made for it.
C7_ExpandPrecondition ==
    [][ /\ \A t \in Tasks : Suspends(t, "getplayer") => frame'[t].id # 0
        /\ (last' # NoCall /\ last'.op = "_expand" /\ last'.id = 0)
              => /\ ReturnsAtOnce("_expand")
                 /\ last'.outcome = Raise("Private")
                 /\ last'.requests = <<>>
                 /\ fetchSeq' = fetchSeq
      ]_vars

\* C7 witness: _expand on a player with id 0 has raised Private.
C7_Witness ==
    /\ last.op = "_expand" /\ last.id = 0
    /\ last.outcome = Raise("Private")
    /\ last.requests = <<>>

\* C8. No memoization: only a player with id 0 ends _expand without a request;
\* every other call makes exactly one "getplayer" request, also for an id that
\* was expanded before, and ends with None for an empty response and with a
\* Player built from this call's own response for a response with data.
C8_ExpandNotMemoized ==
    [][ /\ ReturnsAtOnce("_expand") => last'.id = 0
        /\ \A t \in Tasks :
              /\ Suspends(t, "getplayer")
                    => /\ frame'[t].requests = <<"getplayer">>
                       /\ fetchSeq' = fetchSeq + 1
                       /\ frame'[t].rid = fetchSeq'
              /\ Completes(t, "getplayer")
                    => /\ last'.op = "_expand" /\ last'.id = frame[t].id
                       /\ last'.requests = <<"getplayer">>
                       /\ fetchSeq' = fetchSeq
                       /\ last'.responses = <<"empty">>
                             => last'.outcome = Return(None)
                       /\ last'.responses = <<"data">>
                             => /\ last'.outcome.kind = "return"
                                /\ last'.outcome.value.kind = "Player"
                                /\ last'.outcome.value.id = frame[t].id
                                /\ last'.outcome.value.data.rid = frame[t].rid
      ]_vars

\* C8 witness: a player that had been expanded before has been expanded again,
\* with one request and a Player built from the new response.
C8_Witness ==
    /\ last.op = "_expand" /\ last.again
    /\ last.requests = <<"getplayer">>
    /\ last.outcome.kind = "return"
    /\ last.outcome.value.kind = "Player"
    /\ last.outcome.value.data.rid = fetchSeq
    /\ fetchSeq > 1

----------------------------------------------------------------------------
(* Properties of equality *)

\* C9 (as claimed). Identity equality: for any two players a and b, a == b is
\* true exactly when both ids are non-zero and equal, and false otherwise; so a
\* player with id 0 equals no player, itself included.
C9_IdentityEquality ==
    eqpc = "done" => eqab = Return(a.id # 0 /\ b.id # 0 /\ a.id = b.id)

\* C22 (as claimed). Equality is symmetric across entity tiers: for any two
\* players a and b, each a PartialPlayer or a Player, a == b and b == a have
\* the same outcome, which is true or false and never an AssertionError.
C22_SymmetricAcrossTiers ==
    eqpc = "done" => /\ eqab = eqba
                     /\ eqab \in {Return(TRUE), Return(FALSE)}
                     /\ eqba \in {Return(TRUE), Return(FALSE)}

----------------------------------------------------------------------------
(* Properties of the lookup helpers *)

\* The positions of seq whose element satisfies every predicate of kwargs.
Matching(seq, kwargs) ==
    {i \in 1..Len(seq) :
        /\ <<"id">> \in DOMAIN kwargs => seq[i].id = kwargs[<<"id">>]
        /\ <<"name">> \in DOMAIN kwargs => seq[i].name = kwargs[<<"name">>]
        /\ <<"champion", "_", "_", "id">> \in DOMAIN kwargs
              => seq[i].champion.id = kwargs[<<"champion", "_", "_", "id">>]}

\* C10 (as claimed). get returns the first element, in iteration order, that
\* satisfies every given predicate, and None without an error when there is
\* none; with one predicate as with several.
C10_FindFirstMatch ==
    getpc = "done" =>
        LET found == Matching(iterable, attrs)
        IN  IF found = {}
            THEN getres = Return(None)
            ELSE getres = Return(iterable[CHOOSE i \in found : \A j \in found : i <= j])

\* C11 (as claimed). Lookup dispatch: get_name_or_id with an int key returns
\* the first element whose id equals the key, with a str key the first element
\* whose name equals the key, and None when no element matches.
C11_LookupDispatch ==
    (getpc = "done" /\ name_or_id # None /\ name_or_id.type \in {"int", "str"}) =>
        LET keyword == IF name_or_id.type = "int" THEN <<"id">> ELSE <<"name">>
            found   == Matching(iterable, OneKeyword(keyword, name_or_id.value))
        IN  IF found = {}
            THEN getres = Return(None)
            ELSE getres = Return(iterable[CHOOSE i \in found : \A j \in found : i <= j])

\* C12 (as claimed). get_name_or_id with a key that is neither an int nor a
\* str ends in a precondition-violation error: it returns neither an element
\* nor None.
C12_WrongKeyTypeIsAnError ==
    (getpc = "done" /\ name_or_id # None /\ name_or_id.type \notin {"int", "str"})
        => getres.kind = "raise"

----------------------------------------------------------------------------
(* Properties of the derived operations *)

\* Task t's call chain makes the request of its catalog-dependent operation in
\* this step.
IssuesOwnRequest(t) ==
    /\ pc'[t] # pc[t]
    /\ pc'[t] \in {RequestOf(op) : op \in CatalogOps}

\* C14. Refresh-before-request ordering: a catalog-dependent operation makes
\* its own request either straight from the call, and then the entry of its
\* language needed no refresh, or in the step in which the second catalog
\* request of the refresh it triggered ends; never while one of the two catalog
\* requests is still to be made or answered. The requests of one call chain
\* are therefore the operation's own request alone, or "getgods", "getitems"
\* and then the operation's own request.
C14_RefreshBeforeRequest ==
    [][ /\ \A t \in Tasks :
              IssuesOwnRequest(t) =>
                  LET own == RequestOf(frame'[t].op)
                  IN  /\ pc'[t] = own
                      /\ \/ /\ pc[t] = "idle"
                            /\ ~_needs_refreshing(frame'[t].language)
                            /\ frame'[t].requests = <<own>>
                            /\ fetchSeq' = fetchSeq
                         \/ /\ pc[t] = "nested_getitems"
                            /\ frame'[t].op = frame[t].op
                            /\ frame'[t].language = frame[t].language
                            /\ frame[t].requests = <<"getgods", "getitems">>
                            /\ frame'[t].requests = <<"getgods", "getitems", own>>
        /\ (last' # NoCall /\ last'.op \in CatalogOps /\ last'.response # NoResponse)
              => \/ last'.requests = <<RequestOf(last'.op)>>
                 \/ last'.requests = <<"getgods", "getitems", RequestOf(last'.op)>>
      ]_vars

\* C14 witness: get_match_history on a stale entry has returned after the two
\* catalog requests of the refresh and then its own request, the entry having
\* been replaced by that refresh.
C14_Witness ==
    /\ last.op = "get_match_history"
    /\ last.requests = <<"getgods", "getitems", "getmatchhistory">>
    /\ last.outcome.kind = "return"
    /\ now = RefreshEvery
    /\ cache[last.language] # None
    /\ cache[last.language].populated_at = now

\* The operations called on a player.
OnPlayer ==
    {"get_status", "get_friends", "get_loadouts", "get_champion_stats",
     "get_match_history"}

\* C15. The derived operations on a private player (id 0): get_status,
\* get_friends, get_loadouts, get_champion_stats and get_match_history raise
\* Private in the step of the call. No call on such a player is ever suspended
\* at a request, of its own or of a catalog refresh, and the failed call leaves
\* the cache and the count of refreshes as they were.
C15_PrivateFailsFirst ==
    [][ /\ \A t \in Tasks :
              (pc'[t] # pc[t] /\ pc'[t] # "idle" /\ frame'[t].op \in OnPlayer)
                  => frame'[t].id # 0
        /\ (last' # NoCall /\ last' # last /\ last'.op \in OnPlayer /\ last'.id = 0)
              => /\ pc' = pc
                 /\ last'.outcome = Raise("Private")
                 /\ last'.requests = <<>>
                 /\ last'.response = NoResponse
                 /\ cache' = cache
                 /\ fetchSeq' = fetchSeq
      ]_vars

\* C15 witness: get_match_history on a player with id 0 has raised Private
\* without a request, while the entry of its language is stale and still the
\* one stored before.
C15_Witness ==
    /\ last.op = "get_match_history" /\ last.id = 0
    /\ last.outcome = Raise("Private")
    /\ last.requests = <<>>
    /\ cache[last.language] = Stored(last.language)
    /\ now - cache[last.language].populated_at >= RefreshEvery
    /\ fetchSeq = 0

\* What get_match_history has returned, and for what.
Returned == getres.value.items
Mapped ==
    /\ getres.kind = "return" /\ getres.value.kind = "list"
    /\ Len(Returned) = Len(history.response)
    /\ \A i \in 1..Len(history.response) :
          /\ Returned[i].kind = "PartialMatch"
          /\ Returned[i].player = history.self
          /\ Returned[i].language = history.language
          /\ Returned[i].data = history.response[i]

\* C18 (as claimed). get_match_history returns an empty list when the response
\* is empty or is a single record whose ret_msg is non-empty; in every other
\* case it returns one PartialMatch per record of the response, in order.
C18_SingleRecordMessage ==
    getpc = "done" =>
        IF \/ history.response = <<>>
           \/ Len(history.response) = 1 /\ history.response[1].ret_msg # ""
        THEN getres = Return(List(<<>>))
        ELSE Mapped

\* C18 (amended). get_match_history returns an empty list when the response is
\* empty or the ret_msg of its first record is non-empty, however many records
\* there are; in every other case it returns one PartialMatch per record of
\* the response, in order.
C18_FirstRecordMessage ==
    getpc = "done" =>
        IF \/ history.response = <<>>
           \/ history.response # <<>> /\ history.response[1].ret_msg # ""
        THEN getres = Return(List(<<>>))
        ELSE Mapped

\* C18 witness: a response of two records, the first with a message and the
\* second without, has been answered with an empty list.
C18_Witness ==
    /\ getpc = "done"
    /\ history # None
    /\ Len(history.response) = 2
    /\ history.response[1].ret_msg # ""
    /\ history.response[2].ret_msg = ""
    /\ getres = Return(List(<<>>))

====
